---- MODULE Spec2Model ----
(***************************************************************************)
(* Model of iter::mixed_product (mixed_product.hpp): the chain of          *)
(* MixedProductor nodes (size_, fakesize_, the shared total_fakesize_),    *)
(* the composite Iterator (iter, begin, end, counter per node and the      *)
(* terminal counter), and a range traversal that collects the emitted      *)
(* tuples the way the tests build their result vectors.                    *)
(*                                                                         *)
(* Nodes are numbered 1..N outermost first; node N+1 is the terminal       *)
(* MixedProductor<>.  A raw cursor of container k is a position 0..len_k,  *)
(* position len_k being std::end.  bigint_t is size_t; within the bounds   *)
(* below no value comes near 2^64, so the arithmetic is unbounded.         *)
(***************************************************************************)
EXTENDS Integers, Sequences, FiniteSets, TLC

\* Bounds of the main specification: number of input containers and the
\* total number of elements over all of them.
MaxN == 3
MaxTotalLen == 9

\* Bounds of the cursor-comparison specification (two live cursors).
EqMaxN == 2
EqMaxTotalLen == 6

VARIABLES
  containers,     \* the bound input sequences, containers[k][j] the j-th element
  gen,            \* generator chain: size_, fakesize_ per node, total_fakesize_
  cursor,         \* the composite Iterator being advanced
  other,          \* a second Iterator of the same generator (a copy)
  is_fake_local,  \* the local `is_fake` of operator++
  arr_it,         \* position in the std::array of the zero-argument overload
  pc,             \* where the traversal is
  out,            \* tuples collected so far
  calls,          \* do_increment calls made on the cursor since begin()
  prev            \* output and call count of an earlier, finished traversal

vars == <<containers, gen, cursor, other, is_fake_local, arr_it, pc, out, calls, prev>>

----------------------------------------------------------------------------
\* Helpers

RECURSIVE SumSeq(_)
SumSeq(s) == IF s = <<>> THEN 0 ELSE Head(s) + SumSeq(Tail(s))

RECURSIVE ProdSeq(_)
ProdSeq(s) == IF s = <<>> THEN 1 ELSE Head(s) * ProdSeq(Tail(s))

\* Length vectors of at most maxN containers holding at most maxTotal elements.
LenVectors(maxN, maxTotal) ==
  { l \in UNION { [1..n -> 0..maxTotal] : n \in 0..maxN } : SumSeq(l) <= maxTotal }

\* The j-th element (0-based) of the k-th input.
Elem(k, j) == <<k, j>>

MakeContainers(lens) ==
  [k \in 1..Len(lens) |-> [j \in 1..lens[k] |-> Elem(k, j - 1)]]

N == Len(containers)
Nodes == 1..N
SizeOf(k) == Len(containers[k])

\* std::begin / std::end of container k as positions.
StdBegin(k) == 0
StdEnd(k) == SizeOf(k)

----------------------------------------------------------------------------
\* MixedProductor

\* Fault variant: a gcd that always answers 1, so nothing is ever padded.
gcd_mut_one(a, b) == 1

RECURSIVE gcd(_, _)
gcd(a, b) == IF b = 0 THEN a ELSE gcd(b, a % b)

\* MixedProductor<>::total_fakesize(fsz): sets when fsz != 0, returns the value.
total_fakesize(g, fsz) ==
  IF fsz # 0 THEN [g EXCEPT !.total_fakesize_ = fsz] ELSE g

\* Fault variant: the padding loop left out.
pad_loop_mut_nopad(fakesize, total) == fakesize

\* the `while (gcd(fakesize_, total) != 1) ++fakesize_` loop
RECURSIVE pad_loop(_, _)
pad_loop(fakesize, total) ==
  IF gcd(fakesize, total) # 1 THEN pad_loop(fakesize + 1, total) ELSE fakesize

\* Fault variant: the new total is the padded length, not its product with
\* the total read.
set_size_mut_noproduct(g, k, size) ==
  IF size = 0 THEN g
  ELSE LET total == g.total_fakesize_
           g1 == [g EXCEPT !.size_[k] = size, !.fakesize_[k] = size,
                           !.total_seen[k] = total]
       IN IF total # 0
            THEN LET f == pad_loop(size, total)
                 IN total_fakesize([g1 EXCEPT !.fakesize_[k] = f], f)
            ELSE total_fakesize(g1, size)

\* Fault variant: the padded length starts one above the size.
set_size_mut_offbyone(g, k, size) ==
  IF size = 0 THEN g
  ELSE LET total == g.total_fakesize_
           g1 == [g EXCEPT !.size_[k] = size, !.fakesize_[k] = size + 1,
                           !.total_seen[k] = total]
       IN IF total # 0
            THEN LET f == pad_loop(size + 1, total)
                 IN total_fakesize([g1 EXCEPT !.fakesize_[k] = f], f * total)
            ELSE total_fakesize(g1, size + 1)

\* set_size(size) of node k.  total_seen[k] records the value the call read
\* from total_fakesize() (the running total before this node's discovery).
set_size(g, k, size) ==
  IF size = 0 THEN g
  ELSE LET total == g.total_fakesize_
           g1 == [g EXCEPT !.size_[k] = size, !.fakesize_[k] = size,
                           !.total_seen[k] = total]
       IN IF total # 0
            THEN LET f == pad_loop(size, total)
                 IN total_fakesize([g1 EXCEPT !.fakesize_[k] = f], f * total)
            ELSE total_fakesize(g1, size)

\* The generator right after construction.
NewGenerator(n) ==
  [size_ |-> [k \in 1..n |-> 0],
   fakesize_ |-> [k \in 1..n |-> 0],
   total_seen |-> [k \in 1..n |-> 0],
   total_fakesize_ |-> 0]

----------------------------------------------------------------------------
\* Iterator

\* Fault variant: counter is not started at 0 but taken over from the owner.
MakeIterator_mut_stalecounter(it) ==
  [iter |-> it,
   begin |-> it,
   end |-> [k \in Nodes |-> StdEnd(k)],
   counter |-> gen.size_,
   gcounter |-> 0]

\* Iterator(it, rest, end, owner): iter{it}, begin{it}, end{end}, counter{0}
MakeIterator(it) ==
  [iter |-> it,
   begin |-> it,
   end |-> [k \in Nodes |-> StdEnd(k)],
   counter |-> [k \in Nodes |-> 0],
   gcounter |-> 0]

\* MixedProductor::begin() / end()
BeginIt == MakeIterator([k \in Nodes |-> StdBegin(k)])
EndIt == MakeIterator([k \in Nodes |-> StdEnd(k)])

\* Fault variant: the upper end of the padding region is not tested.
is_fake_mut_nobound(c, g, k) ==
  IF c.counter[k] < g.size_[k] \/ g.fakesize_[k] = 0
    THEN FALSE
    ELSE TRUE

is_fake(c, g, k) ==
  IF c.counter[k] < g.size_[k] \/ g.fakesize_[k] = 0
    THEN FALSE
    ELSE c.counter[k] < g.fakesize_[k]

global_counter(c) == c.gcounter

RECURSIVE all_sizes_discovered(_, _)
all_sizes_discovered(g, k) ==
  IF k > Len(g.fakesize_) THEN TRUE
  ELSE g.fakesize_[k] # 0 /\ all_sizes_discovered(g, k + 1)

\* Fault variant: the test without all_sizes_discovered().
termination_test_mut_nodiscovery(c, g) ==
  global_counter(c) = g.total_fakesize_

\* operator++: all_sizes_discovered() && global_counter() == total_fakesize()
termination_test(c, g) ==
  all_sizes_discovered(g, 1) /\ global_counter(c) = g.total_fakesize_

\* Fault variant: a wrap resets the raw cursor but not the counter.
node_increment_mut_keepcounter(c, g, k) ==
  LET c1 == [c EXCEPT !.iter[k] = IF ~is_fake(c, g, k) THEN @ + 1 ELSE @,
                      !.counter[k] = @ + 1]
  IN IF c1.iter[k] = c1.end[k]
       THEN LET g1 == IF c1.counter[k] > 0 /\ g.fakesize_[k] = 0
                        THEN set_size(g, k, c1.counter[k]) ELSE g
            IN IF ~is_fake(c1, g1, k)
                 THEN [c |-> [c1 EXCEPT !.iter[k] = c1.begin[k]],
                       g |-> g1, fake |-> FALSE]
                 ELSE [c |-> c1, g |-> g1, fake |-> TRUE]
       ELSE [c |-> c1, g |-> g, fake |-> FALSE]

\* Fault variant: set_size runs at every arrival at the end, not only the first.
node_increment_mut_rediscover(c, g, k) ==
  LET c1 == [c EXCEPT !.iter[k] = IF ~is_fake(c, g, k) THEN @ + 1 ELSE @,
                      !.counter[k] = @ + 1]
  IN IF c1.iter[k] = c1.end[k]
       THEN LET g1 == IF c1.counter[k] > 0
                        THEN set_size(g, k, c1.counter[k]) ELSE g
            IN IF ~is_fake(c1, g1, k)
                 THEN [c |-> [c1 EXCEPT !.iter[k] = c1.begin[k], !.counter[k] = 0],
                       g |-> g1, fake |-> FALSE]
                 ELSE [c |-> c1, g |-> g1, fake |-> TRUE]
       ELSE [c |-> c1, g |-> g, fake |-> FALSE]

\* Fault variant: the raw cursor advances in the padding region too.
node_increment_mut_fakeadvance(c, g, k) ==
  LET c1 == [c EXCEPT !.iter[k] = @ + 1, !.counter[k] = @ + 1]
  IN IF c1.iter[k] = c1.end[k]
       THEN LET g1 == IF c1.counter[k] > 0 /\ g.fakesize_[k] = 0
                        THEN set_size(g, k, c1.counter[k]) ELSE g
            IN IF ~is_fake(c1, g1, k)
                 THEN [c |-> [c1 EXCEPT !.iter[k] = c1.begin[k], !.counter[k] = 0],
                       g |-> g1, fake |-> FALSE]
                 ELSE [c |-> c1, g |-> g1, fake |-> TRUE]
       ELSE [c |-> c1, g |-> g, fake |-> FALSE]

\* do_increment() of node k up to its call of rest_iter.do_increment():
\* the node's iterator and counter step, a first arrival at the end sets the
\* size, and a node at its end that is not fake wraps.  `fake` tells the
\* branch that returns true whatever the rest returns.
node_increment(c, g, k) ==
  LET c1 == [c EXCEPT !.iter[k] = IF ~is_fake(c, g, k) THEN @ + 1 ELSE @,
                      !.counter[k] = @ + 1]
  IN IF c1.iter[k] = c1.end[k]
       THEN LET g1 == IF c1.counter[k] > 0 /\ g.fakesize_[k] = 0
                        THEN set_size(g, k, c1.counter[k]) ELSE g
            IN IF ~is_fake(c1, g1, k)
                 THEN [c |-> [c1 EXCEPT !.iter[k] = c1.begin[k], !.counter[k] = 0],
                       g |-> g1, fake |-> FALSE]
                 ELSE [c |-> c1, g |-> g1, fake |-> TRUE]
       ELSE [c |-> c1, g |-> g, fake |-> FALSE]

\* Fault variant: the branch of a fake node at its end returns true without
\* calling rest_iter.do_increment().
RECURSIVE do_increment_mut_skiprest(_, _, _)
do_increment_mut_skiprest(c, g, k) ==
  IF k > Len(c.iter)
    THEN [c |-> [c EXCEPT !.gcounter = @ + 1], g |-> g, ret |-> FALSE]
    ELSE CHOOSE r \in { IF s.fake
                           THEN [c |-> s.c, g |-> s.g, ret |-> TRUE]
                           ELSE do_increment_mut_skiprest(s.c, s.g, k + 1) :
                          s \in {node_increment(c, g, k)} } : TRUE

\* Fault variant: the branch of a fake node at its end returns what the rest
\* returns.
RECURSIVE do_increment_mut_restwins(_, _, _)
do_increment_mut_restwins(c, g, k) ==
  IF k > Len(c.iter)
    THEN [c |-> [c EXCEPT !.gcounter = @ + 1], g |-> g, ret |-> FALSE]
    ELSE CHOOSE r \in { do_increment_mut_restwins(s.c, s.g, k + 1) :
                          s \in {node_increment(c, g, k)} } : TRUE

\* Fault variant: rest_iter.do_increment() runs before the node's own step.
RECURSIVE do_increment_mut_innerfirst(_, _, _)
do_increment_mut_innerfirst(c, g, k) ==
  IF k > Len(c.iter)
    THEN [c |-> [c EXCEPT !.gcounter = @ + 1], g |-> g, ret |-> FALSE]
    ELSE CHOOSE r \in { LET s == node_increment(t.c, t.g, k)
                         IN [c |-> s.c, g |-> s.g, ret |-> s.fake \/ t.ret] :
                          t \in {do_increment_mut_innerfirst(c, g, k + 1)} } : TRUE

\* do_increment() of node k and, through rest_iter, of every node after it;
\* node N+1 is MixedProductor<>::Iterator::do_increment.  Yields the
\* iterator, the generator and the returned flag.  (The one-element set
\* binds the node's result once before the rest of the chain reads it.)
RECURSIVE do_increment(_, _, _)
do_increment(c, g, k) ==
  IF k > Len(c.iter)
    THEN [c |-> [c EXCEPT !.gcounter = @ + 1], g |-> g, ret |-> FALSE]
    ELSE CHOOSE r \in { [do_increment(s.c, s.g, k + 1) EXCEPT !.ret = @ \/ s.fake] :
                          s \in {node_increment(c, g, k)} } : TRUE

\* Fault variant: != as soon as one node differs (|| for &&).
RECURSIVE NotEqual_mut_any(_, _, _)
NotEqual_mut_any(a, b, k) ==
  IF k > Len(a.iter) THEN FALSE
  ELSE a.iter[k] # b.iter[k] \/ (k + 1 <= Len(a.iter) /\ NotEqual_mut_any(a, b, k + 1))

\* Fault variant: the last node also consults the terminal operator!=.
RECURSIVE NotEqual_mut_nobase(_, _, _)
NotEqual_mut_nobase(a, b, k) ==
  IF k > Len(a.iter) THEN FALSE
  ELSE a.iter[k] # b.iter[k] /\ NotEqual_mut_nobase(a, b, k + 1)

\* operator!= of node k; node N+1 is MixedProductor<>::Iterator (always false),
\* which the last real node bypasses through RestIter::is_base_iter.
RECURSIVE NotEqual(_, _, _)
NotEqual(a, b, k) ==
  IF k > Len(a.iter) THEN FALSE
  ELSE a.iter[k] # b.iter[k] /\ (k + 1 > Len(a.iter) \/ NotEqual(a, b, k + 1))

\* operator==
Equal(a, b, k) == ~NotEqual(a, b, k)

\* Fault variant: the tuple assembled innermost first.
Deref_mut_reversed(c) == [k \in Nodes |-> containers[N + 1 - k][c.iter[N + 1 - k] + 1]]

\* operator*: tuple_cat of *iter of each node, outermost first.
Deref(c) == [k \in Nodes |-> containers[k][c.iter[k] + 1]]

----------------------------------------------------------------------------
\* Zero-argument overload: std::array<std::tuple<>, 1>

ZeroArgSize == 1
ZeroArgArray == [j \in 1..ZeroArgSize |-> <<>>]

\* Fault variant: the comparison of MixedProductor<>::Iterator (never !=).
ArrNotEqual_mut_base(a, b) == FALSE

ArrNotEqual(a, b) == a # b

----------------------------------------------------------------------------
\* Initial states and actions

NoTraversal == [finished |-> FALSE]

InitWith(maxN, maxTotal) ==
  /\ containers \in { MakeContainers(l) : l \in LenVectors(maxN, maxTotal) }
  /\ gen = NewGenerator(Len(containers))
  /\ cursor = BeginIt
  /\ other = BeginIt
  /\ is_fake_local = FALSE
  /\ arr_it = 0
  /\ pc = "ready"
  /\ out = <<>>
  /\ calls = 0
  /\ prev = NoTraversal

Init == InitWith(MaxN, MaxTotalLen)

\* Range traversal, one round: first != last holds, *first is collected and
\* operator++ is entered.
Visit ==
  /\ pc = "ready"
  /\ N >= 1
  /\ NotEqual(cursor, EndIt, 1)
  /\ out' = Append(out, Deref(cursor))
  /\ is_fake_local' = FALSE
  /\ pc' = "incr"
  /\ UNCHANGED <<containers, gen, cursor, other, arr_it, calls, prev>>

\* The same round through operator++(int): ret = *this is kept, then ++*this.
PostIncrement ==
  /\ pc = "ready"
  /\ N >= 1
  /\ NotEqual(cursor, EndIt, 1)
  /\ other' = cursor
  /\ out' = Append(out, Deref(cursor))
  /\ is_fake_local' = FALSE
  /\ pc' = "incr"
  /\ UNCHANGED <<containers, gen, cursor, arr_it, calls, prev>>

\* operator++, the body of the do-while: one do_increment through the chain.
DoIncrement ==
  /\ pc = "incr"
  /\ \E r \in {do_increment(cursor, gen, 1)} :
        /\ cursor' = r.c
        /\ gen' = r.g
        /\ is_fake_local' = r.ret
  /\ pc' = "check"
  /\ calls' = calls + 1
  /\ UNCHANGED <<containers, other, arr_it, out, prev>>

\* operator++, the termination test and the loop condition.
LoopTest ==
  /\ pc = "check"
  /\ IF termination_test(cursor, gen)
       THEN /\ cursor' = EndIt
            /\ pc' = "ready"
       ELSE /\ cursor' = cursor
            /\ pc' = IF is_fake_local THEN "incr" ELSE "ready"
  /\ UNCHANGED <<containers, gen, other, is_fake_local, arr_it, out, calls, prev>>

\* Range traversal: first == last, the traversal is over.
Finish ==
  /\ pc = "ready"
  /\ N >= 1
  /\ ~NotEqual(cursor, EndIt, 1)
  /\ pc' = "done"
  /\ UNCHANGED <<containers, gen, cursor, other, is_fake_local, arr_it, out, calls, prev>>

\* Zero arguments: one round over the std::array.
ArrayVisit ==
  /\ pc = "ready"
  /\ N = 0
  /\ ArrNotEqual(arr_it, ZeroArgSize)
  /\ out' = Append(out, ZeroArgArray[arr_it + 1])
  /\ arr_it' = arr_it + 1
  /\ UNCHANGED <<containers, gen, cursor, other, is_fake_local, pc, calls, prev>>

ArrayFinish ==
  /\ pc = "ready"
  /\ N = 0
  /\ ~ArrNotEqual(arr_it, ZeroArgSize)
  /\ pc' = "done"
  /\ UNCHANGED <<containers, gen, cursor, other, is_fake_local, arr_it, out, calls, prev>>

Next ==
  \/ Visit
  \/ DoIncrement
  \/ LoopTest
  \/ Finish
  \/ ArrayVisit
  \/ ArrayFinish

Spec == Init /\ [][Next]_vars

\* The traversal is a single synchronous loop: whenever a step is possible it
\* is taken.
FairSpec == Spec /\ WF_vars(Next)

\* Two cursors of one generator: the traversal may keep the copy that
\* operator++(int) returns.
InitEq == InitWith(EqMaxN, EqMaxTotalLen)

NextEq ==
  \/ Visit
  \/ PostIncrement
  \/ DoIncrement
  \/ LoopTest
  \/ Finish
  \/ ArrayVisit
  \/ ArrayFinish

SpecEq == InitEq /\ [][NextEq]_vars

\* A second traversal of the same generator: begin() is called again after
\* the first traversal has reached end().  The generator keeps size_,
\* fakesize_ and total_fakesize_; the new Iterator starts with fresh counters.
ReBegin ==
  /\ pc = "done"
  /\ N >= 1
  /\ ~prev.finished
  /\ prev' = [finished |-> TRUE, out |-> out, calls |-> calls]
  /\ cursor' = BeginIt
  /\ out' = <<>>
  /\ calls' = 0
  /\ is_fake_local' = FALSE
  /\ pc' = "ready"
  /\ UNCHANGED <<containers, gen, other, arr_it>>

NextRe ==
  \/ Visit
  \/ DoIncrement
  \/ LoopTest
  \/ Finish
  \/ ArrayVisit
  \/ ArrayFinish
  \/ ReBegin

SpecRe == Init /\ [][NextRe]_vars

----------------------------------------------------------------------------
\* Vocabulary of the properties

Lens == [k \in Nodes |-> SizeOf(k)]
NonEmptyInputs == N >= 1 /\ \A k \in Nodes : SizeOf(k) >= 1
HasEmptyInput == N >= 1 /\ \E k \in Nodes : SizeOf(k) = 0

Range(s) == { s[i] : i \in DOMAIN s }

\* Every choice of one element per input.
AllCombinations ==
  { t \in [Nodes -> UNION { Range(containers[k]) : k \in Nodes }] :
      \A k \in Nodes : t[k] \in Range(containers[k]) }

Discovered(g) == { k \in DOMAIN g.fakesize_ : g.fakesize_[k] # 0 }

Coprime(a, b) == \A d \in 2..a : ~(a % d = 0 /\ b % d = 0)

\* The tuples of global steps 0..T-1, in order, whose phase g mod p_k is a
\* real position of every input k.
Staggered(T) ==
  LET Real(g) == \A k \in Nodes : g % gen.fakesize_[k] < SizeOf(k)
      steps == SelectSeq([i \in 1..T |-> i - 1], Real)
  IN [i \in 1..Len(steps) |-> [k \in Nodes |-> Elem(k, steps[i] % gen.fakesize_[k])]]

Pair(a, b) == <<Elem(1, a), Elem(2, b)>>
Triple(a, b, c) == <<Elem(1, a), Elem(2, b), Elem(3, c)>>

----------------------------------------------------------------------------
\* C1: over non-empty inputs a finished traversal has emitted exactly
\* len_1 * ... * len_N tuples, no combination twice and every combination of
\* one element per input once.
C1_FullProduct ==
  (pc = "done" /\ NonEmptyInputs) =>
     /\ Len(out) = ProdSeq(Lens)
     /\ \A i, j \in 1..Len(out) : i # j => out[i] # out[j]
     /\ \A t \in AllCombinations : \E i \in 1..Len(out) : out[i] = t

C1_Witness ==
  /\ pc = "done"
  /\ Lens = <<2, 4>>
  /\ Len(out) = 8
  /\ gen.fakesize_ = <<2, 5>>

\* C2: the emitted sequence is the staggered schedule over the padded
\* lengths, slot k of every tuple is an element of input k, and the three
\* literal sequences of the tests come out.
C2_StaggeredOrder ==
  (pc = "done" /\ NonEmptyInputs) =>
     /\ out = Staggered(ProdSeq(gen.fakesize_))
     /\ \A i \in 1..Len(out) : \A k \in Nodes : out[i][k] \in Range(containers[k])
     /\ Lens = <<2, 4>> =>
          out = <<Pair(0, 0), Pair(1, 1), Pair(0, 2), Pair(1, 3),
                  Pair(1, 0), Pair(0, 1), Pair(1, 2), Pair(0, 3)>>
     /\ Lens = <<2, 3>> =>
          out = <<Pair(0, 0), Pair(1, 1), Pair(0, 2),
                  Pair(1, 0), Pair(0, 1), Pair(1, 2)>>
     /\ Lens = <<2, 2, 1>> =>
          out = <<Triple(0, 0, 0), Triple(1, 1, 0), Triple(1, 0, 0), Triple(0, 1, 0)>>

C2_Witness ==
  /\ pc = "done"
  /\ Lens = <<2, 2, 1>>
  /\ Len(out) = 4
  /\ gen.fakesize_ = <<2, 3, 1>>

\* C3: whenever the cursor stands between two operations over non-empty
\* inputs and is not the end cursor, it compares != end(), no node is in its
\* padding phase, and every raw cursor is at a real element.
C3_NoPaddingEmitted ==
  (pc = "ready" /\ NonEmptyInputs) =>
     /\ cursor # EndIt => NotEqual(cursor, EndIt, 1)
     /\ NotEqual(cursor, EndIt, 1) =>
          \A k \in Nodes :
             /\ cursor.iter[k] < StdEnd(k)
             /\ cursor.iter[k] + 1 \in DOMAIN containers[k]
             /\ gen.fakesize_[k] # 0 => cursor.counter[k] < gen.size_[k]

C3_Witness ==
  /\ pc = "ready"
  /\ Lens = <<2, 4>>
  /\ cursor.gcounter = 5
  /\ gen.fakesize_ = <<2, 5>>
  /\ NotEqual(cursor, EndIt, 1)

\* C4: with an empty input anywhere, begin() == end() at once and the
\* traversal emits nothing.
C4_EmptyInput ==
  HasEmptyInput =>
     /\ Equal(BeginIt, EndIt, 1)
     /\ cursor = BeginIt
     /\ pc \in {"ready", "done"}
     /\ out = <<>>

C4_Witness ==
  /\ pc = "done"
  /\ Lens = <<2, 0, 3>>
  /\ out = <<>>

\* C5: every operator++ returns, the traversal reaches end(), and the cursor
\* is forced to end exactly when all lengths are known and the step counter
\* equals the product of all padded lengths, every node having just wrapped.
C5_Termination ==
  /\ <>(pc = "done")
  /\ (pc = "incr") ~> (pc = "ready")
  /\ [][ (pc = "check" /\ NonEmptyInputs) =>
           /\ (cursor' = EndIt) =>
                /\ Discovered(gen) = Nodes
                /\ cursor.gcounter = ProdSeq(gen.fakesize_)
                /\ cursor.gcounter = gen.total_fakesize_
                /\ \A k \in Nodes : cursor.counter[k] = 0
           /\ (Discovered(gen) = Nodes /\ cursor.gcounter = ProdSeq(gen.fakesize_))
                => cursor' = EndIt ]_vars

C5_Witness ==
  /\ pc = "done"
  /\ Lens = <<2, 2, 3>>
  /\ gen.total_fakesize_ = 30
  /\ cursor = EndIt

\* C6 as stated: two cursors compare equal iff every node's raw cursor is
\* pairwise equal.
C6_Original ==
  \A b \in {other, BeginIt, EndIt} :
     Equal(cursor, b, 1) <=> (\A k \in Nodes : cursor.iter[k] = b.iter[k])

\* C6 amended: for at least one input, two cursors compare equal iff some
\* node's raw cursor equals the corresponding raw cursor of the other; the
\* terminal cursors always compare equal.
C6_EqualIffSomeNode ==
  /\ N >= 1 =>
       \A b \in {other, BeginIt, EndIt} :
          Equal(cursor, b, 1) <=> (\E k \in Nodes : cursor.iter[k] = b.iter[k])
  /\ Equal(cursor, other, N + 1)
  /\ Equal(cursor, EndIt, N + 1)

C6_Witness ==
  /\ pc = "ready"
  /\ N = 2
  /\ NotEqual(cursor, EndIt, 1)
  /\ NotEqual(other, EndIt, 1)
  /\ cursor.iter[1] = other.iter[1]
  /\ cursor.iter[2] # other.iter[2]
  /\ Equal(cursor, other, 1)

\* C7: a single input of length L >= 1 is passed through: its elements come
\* out as 1-tuples in order, the padded length is the true length, and every
\* operator++ makes exactly one do_increment.
C7_SingleInput ==
  (N = 1 /\ SizeOf(1) >= 1) =>
     /\ pc = "check" => ~is_fake_local
     /\ pc = "incr" => cursor.gcounter = Len(out) - 1
     /\ (pc = "ready" /\ cursor # EndIt) => cursor.gcounter = Len(out)
     /\ gen.fakesize_[1] # 0 =>
          gen.fakesize_[1] = SizeOf(1) /\ gen.size_[1] = SizeOf(1)
     /\ pc = "done" => out = [j \in 1..SizeOf(1) |-> <<Elem(1, j - 1)>>]

C7_Witness ==
  /\ pc = "done"
  /\ Lens = <<3>>
  /\ Len(out) = 3

\* C8: with no input the result is one empty tuple: begin differs from end,
\* begin dereferences to the empty tuple, one advance reaches the end.
C8_ZeroInputs ==
  N = 0 =>
     /\ arr_it \in {0, 1}
     /\ arr_it = 0 => pc = "ready" /\ out = <<>>
     /\ arr_it = 1 => out = << <<>> >>
     /\ pc = "done" => arr_it = 1

C8_Witness ==
  /\ N = 0
  /\ pc = "done"
  /\ out = << <<>> >>

\* C9: a node has size_ = fakesize_ = 0 until discovered, that is while the
\* traversal has made fewer steps than the input has elements; afterwards
\* fakesize_ >= size_ >= 1, and fakesize_ is size_ when the running total read
\* at discovery was 0, else the least value >= size_ coprime with that total.
C9_PaddedLength ==
  \A k \in Nodes :
     /\ gen.fakesize_[k] = 0 <=> gen.size_[k] = 0
     /\ (NonEmptyInputs /\ cursor # EndIt) =>
          (gen.fakesize_[k] = 0 <=> cursor.gcounter < SizeOf(k))
     /\ gen.fakesize_[k] # 0 =>
          /\ gen.size_[k] >= 1
          /\ gen.fakesize_[k] >= gen.size_[k]
          /\ IF gen.total_seen[k] = 0
               THEN gen.fakesize_[k] = gen.size_[k]
               ELSE /\ Coprime(gen.fakesize_[k], gen.total_seen[k])
                    /\ \A f \in gen.size_[k]..(gen.fakesize_[k] - 1) :
                          ~Coprime(f, gen.total_seen[k])

C9_Witness ==
  /\ Lens = <<2, 2, 3>>
  /\ gen.fakesize_ = <<2, 3, 5>>
  /\ gen.total_seen = <<0, 2, 6>>

\* C10: the running total is the product of the padded lengths of the nodes
\* discovered so far (0 when there is none); it never decreases and changes
\* only when nodes are discovered, each discovery multiplying the total it
\* read by that node's padded length.
C10_RunningTotal ==
  /\ [](gen.total_fakesize_ =
          IF Discovered(gen) = {} THEN 0
          ELSE ProdSeq([k \in Nodes |->
                 IF k \in Discovered(gen) THEN gen.fakesize_[k] ELSE 1]))
  /\ [][ LET New == Discovered(gen') \ Discovered(gen)
             After(k) == gen'.fakesize_[k] *
                           (IF gen'.total_seen[k] = 0 THEN 1 ELSE gen'.total_seen[k])
         IN /\ gen'.total_fakesize_ >= gen.total_fakesize_
            /\ gen'.total_fakesize_ # gen.total_fakesize_ => New # {}
            /\ \A k \in New :
                  /\ IF \E j \in New : j < k
                       THEN LET j == CHOOSE i \in New :
                                       i < k /\ \A m \in New : m < k => m <= i
                            IN gen'.total_seen[k] = After(j)
                       ELSE gen'.total_seen[k] = gen.total_fakesize_
                  /\ (\A m \in New : m <= k) => gen'.total_fakesize_ = After(k) ]_vars

C10_Witness ==
  /\ Lens = <<2, 2, 3>>
  /\ gen.total_fakesize_ = 30
  /\ pc = "check"

\* A node is in its padding region: discovered, size_ <= counter < fakesize_.
InPadding(c, g, k) ==
  g.fakesize_[k] # 0 /\ g.size_[k] <= c.counter[k] /\ c.counter[k] < g.fakesize_[k]

\* C11: a node's length is discovered at the step that first brings its raw
\* cursor to the sentinel, size_ is then the number of elements, and from then
\* on size_ and fakesize_ never change (no second discovery); after a
\* traversal of non-empty inputs every node is discovered.
C11_DiscoveredOnce ==
  /\ [](\A k \in Nodes :
          /\ gen.fakesize_[k] # 0 => gen.size_[k] = SizeOf(k)
          /\ (gen.fakesize_[k] = 0 /\ NonEmptyInputs) => cursor.iter[k] < StdEnd(k)
          /\ (pc = "done" /\ NonEmptyInputs) => gen.fakesize_[k] # 0)
  /\ [][\A k \in Nodes :
          /\ gen.fakesize_[k] # 0 =>
               /\ gen'.size_[k] = gen.size_[k]
               /\ gen'.fakesize_[k] = gen.fakesize_[k]
               /\ gen'.total_seen[k] = gen.total_seen[k]
          /\ (gen.fakesize_[k] = 0 /\ gen'.fakesize_[k] # 0) =>
               /\ pc = "incr"
               /\ cursor.iter[k] + 1 = StdEnd(k)
               /\ gen'.size_[k] = cursor.counter[k] + 1 ]_vars

C11_Witness ==
  /\ Lens = <<2, 3>>
  /\ gen.size_ = <<2, 3>>
  /\ cursor.gcounter = 5
  /\ pc = "check"

\* C12: after every do_increment a discovered node has counter < fakesize_;
\* an undiscovered node's counter starts at 0 and grows by one per step.
C12_CounterBound ==
  /\ [](\A k \in Nodes :
          /\ gen.fakesize_[k] # 0 => cursor.counter[k] < gen.fakesize_[k]
          /\ (gen.fakesize_[k] = 0 /\ calls = 0) => cursor.counter[k] = 0)
  /\ [][pc = "incr" =>
          \A k \in Nodes :
             gen'.fakesize_[k] = 0 => cursor'.counter[k] = cursor.counter[k] + 1]_vars

C12_Witness ==
  /\ Lens = <<2, 4>>
  /\ pc = "check"
  /\ cursor.counter = <<0, 4>>
  /\ gen.fakesize_ = <<2, 5>>

\* The two places of do_increment where is_fake() is evaluated for node k in
\* a step from the current state: on entry (the node's own fields are still
\* those of the current state), and, when the raw cursor has come to the end,
\* after ++counter and a possible set_size.
SecondEvalReached(k) ==
  (IF is_fake(cursor, gen, k) THEN cursor.iter[k] ELSE cursor.iter[k] + 1)
     = cursor.end[k]
SecondEvalCursor == [cursor EXCEPT !.counter = [k \in Nodes |-> @[k] + 1]]

\* C13 as stated: is_fake() is true iff the node is discovered and
\* counter >= size_.
C13_Original ==
  [][pc = "incr" =>
       \A k \in Nodes :
          /\ is_fake(cursor, gen, k) <=>
               (gen.fakesize_[k] # 0 /\ cursor.counter[k] >= gen.size_[k])
          /\ SecondEvalReached(k) =>
               (is_fake(SecondEvalCursor, gen', k) <=>
                  (gen'.fakesize_[k] # 0
                     /\ SecondEvalCursor.counter[k] >= gen'.size_[k]))]_vars

\* C13 amended: at both evaluations is_fake() is true iff the node is
\* discovered and size_ <= counter < fakesize_.
C13_IsFakeRange ==
  [][pc = "incr" =>
       \A k \in Nodes :
          /\ is_fake(cursor, gen, k) <=> InPadding(cursor, gen, k)
          /\ SecondEvalReached(k) =>
               (is_fake(SecondEvalCursor, gen', k) <=>
                  InPadding(SecondEvalCursor, gen', k))]_vars

C13_Witness ==
  /\ Lens = <<2, 4>>
  /\ pc = "incr"
  /\ cursor.counter = <<0, 4>>
  /\ gen.fakesize_ = <<2, 5>>
  /\ is_fake(cursor, gen, 2)
  /\ SecondEvalReached(2)
  /\ SecondEvalCursor.counter[2] = gen.fakesize_[2]
  /\ ~is_fake(SecondEvalCursor, gen, 2)

\* C14: a node in its padding region keeps its raw cursor at the sentinel
\* while its counter grows by one per step; a discovered node is reset (raw
\* cursor to begin, counter 0) exactly in the step in which its counter
\* reaches fakesize_, and otherwise its counter grows by one.
C14_PaddingPhase ==
  /\ [](\A k \in Nodes :
          InPadding(cursor, gen, k) => cursor.iter[k] = cursor.end[k])
  /\ [][pc = "incr" =>
          \A k \in Nodes :
             /\ InPadding(cursor, gen, k) =>
                  IF cursor.counter[k] + 1 < gen.fakesize_[k]
                    THEN /\ cursor'.iter[k] = cursor.end[k]
                         /\ cursor'.counter[k] = cursor.counter[k] + 1
                    ELSE /\ cursor'.iter[k] = cursor.begin[k]
                         /\ cursor'.counter[k] = 0
             /\ gen'.fakesize_[k] # 0 =>
                  IF cursor.counter[k] + 1 = gen'.fakesize_[k]
                    THEN /\ cursor'.iter[k] = cursor.begin[k]
                         /\ cursor'.counter[k] = 0
                    ELSE cursor'.counter[k] = cursor.counter[k] + 1 ]_vars

C14_Witness ==
  /\ Lens = <<2, 2, 3>>
  /\ gen.fakesize_ = <<2, 3, 5>>
  /\ pc = "incr"
  /\ cursor.counter[3] = 4
  /\ cursor.iter[3] = 3

\* The cursor is the one begin() gave, advanced calls times; it has not been
\* overwritten by end().
Advancing == N >= 1 /\ (calls = 0 \/ cursor # EndIt)

C16_ReturnedFlag ==
  pc = "check" =>
     /\ is_fake_local <=> (\E k \in Nodes : InPadding(cursor, gen, k))
     /\ ~is_fake_local <=> (\A k \in Nodes : cursor.iter[k] < StdEnd(k))

C16_Witness ==
  /\ Lens = <<2, 4, 3>>
  /\ pc = "check"
  /\ is_fake_local
  /\ InPadding(cursor, gen, 2)
  /\ ~InPadding(cursor, gen, 1)
  /\ ~InPadding(cursor, gen, 3)

\* The nodes discovered before node k: shorter inputs, and inputs of the same
\* length declared earlier.
Before(k) ==
  { j \in Nodes : SizeOf(j) < SizeOf(k) \/ (SizeOf(j) = SizeOf(k) /\ j < k) }

TotalBefore(k) ==
  IF Before(k) = {} THEN 0
  ELSE ProdSeq([j \in Nodes |-> IF j \in Before(k) THEN gen.fakesize_[j] ELSE 1])

LeastCoprime(len, total) ==
  IF total = 0 THEN len
  ELSE CHOOSE f \in len..(len + total) :
         Coprime(f, total) /\ \A h \in len..(f - 1) : ~Coprime(h, total)

\* C17: a node of length L is discovered in the do_increment that brings the
\* terminal counter to L; hence the total a node reads at discovery is the
\* product of the padded lengths of the shorter inputs and of the equally
\* long inputs declared before it, its padded length is fixed from that
\* total, and it never changes afterwards.
C17_DiscoveryOrder ==
  /\ []((Advancing /\ NonEmptyInputs) =>
          Discovered(gen) = { k \in Nodes : SizeOf(k) <= cursor.gcounter })
  /\ [](\A k \in Discovered(gen) :
          /\ gen.total_seen[k] = TotalBefore(k)
          /\ gen.fakesize_[k] = LeastCoprime(SizeOf(k), TotalBefore(k)))
  /\ [][\A k \in Nodes :
          /\ (gen.fakesize_[k] = 0 /\ gen'.fakesize_[k] # 0) =>
               cursor'.gcounter = SizeOf(k)
          /\ gen.fakesize_[k] # 0 => gen'.fakesize_[k] = gen.fakesize_[k] ]_vars

C17_Witness ==
  /\ Lens = <<3, 2, 2>>
  /\ gen.fakesize_ = <<5, 2, 3>>
  /\ gen.total_seen = <<6, 0, 2>>

\* C18: while the cursor is advancing, with g the terminal counter, an
\* undiscovered node has counter g and a discovered node g mod fakesize_; the
\* raw cursor is at index counter when that is a real position and at the
\* sentinel otherwise.
C18_PhaseLockstep ==
  (Advancing /\ NonEmptyInputs) =>
     \A k \in Nodes :
        /\ cursor.counter[k] =
             IF gen.fakesize_[k] = 0 THEN cursor.gcounter
             ELSE cursor.gcounter % gen.fakesize_[k]
        /\ cursor.iter[k] =
             IF cursor.counter[k] < SizeOf(k) THEN cursor.counter[k] ELSE StdEnd(k)

C18_Witness ==
  /\ Lens = <<2, 4, 3>>
  /\ pc = "check"
  /\ cursor.gcounter = 9
  /\ gen.fakesize_ = <<2, 5, 3>>
  /\ cursor.counter = <<1, 4, 0>>
  /\ cursor.iter = <<1, 4, 0>>

\* C19: the padded lengths of any two discovered nodes are coprime, and once
\* all are discovered the steps 0..T-1 of one cycle give T different
\* combinations of phases.
C19_PairwiseCoprime ==
  /\ \A j, k \in Discovered(gen) : j # k => Coprime(gen.fakesize_[j], gen.fakesize_[k])
  /\ (pc = "done" /\ NonEmptyInputs) =>
        Cardinality({ [k \in Nodes |-> g % gen.fakesize_[k]] :
                        g \in 0..(gen.total_fakesize_ - 1) }) = gen.total_fakesize_

C19_Witness ==
  /\ Lens = <<2, 4, 3>>
  /\ pc = "done"
  /\ gen.fakesize_ = <<2, 5, 3>>
  /\ gen.total_fakesize_ = 30

\* C20: size_, fakesize_ and total_fakesize_ live in the generator and
\* survive a traversal, counters are the cursor's own; a cursor taken from
\* begin() after a finished traversal starts with all lengths known and
\* counters 0, emits the same tuples in the same order and reaches end()
\* after the same number of do_increment calls.
C20_ReTraversal ==
  (prev.finished /\ NonEmptyInputs) =>
     /\ Discovered(gen) = Nodes
     /\ gen.size_ = Lens
     /\ gen.total_fakesize_ = prev.calls
     /\ calls = 0 =>
          /\ cursor = BeginIt
          /\ cursor.gcounter = 0
          /\ \A k \in Nodes : cursor.counter[k] = 0
     /\ Len(out) <= Len(prev.out)
     /\ out = SubSeq(prev.out, 1, Len(out))
     /\ calls <= prev.calls
     /\ pc = "done" =>
          /\ out = prev.out
          /\ calls = prev.calls
          /\ cursor = EndIt

C20_Witness ==
  /\ prev.finished
  /\ pc = "done"
  /\ Lens = <<2, 4, 3>>
  /\ Len(out) = 24
  /\ out = prev.out
  /\ calls = 30

====
